---- MODULE Spec2Model ----
(***************************************************************************)
(* Deployment orchestration of nodejs-ansible-deploy: the Ansible plays    *)
(* ansible/rolling-update.yml (serial rolling update), ansible/deploy.yml   *)
(* (full-batch deployment) and ansible/disaster-recovery.yml (restore from  *)
(* a supplied backup), executed by ansible-playbook's linear strategy:      *)
(* hosts are taken batch by batch (serial), every host of a batch runs the  *)
(* play's task list in order, a task that fails without ignore_errors       *)
(* removes the host from the play, and a batch in which every host failed   *)
(* ends the play.  The operator chooses the play, and for the rolling       *)
(* update either the whole play or the tasks of one tag (--tags); the       *)
(* hosts, the load balancer and the health endpoint answer as they please.  *)
(* Nothing keeps an operator from starting a play on a group while another  *)
(* run is in progress, so the state of a run (its batches, each host's place *)
(* in the task list, its registered results) is kept per run, and the state *)
(* of a host (service, application directory, backups) is shared by them.   *)
(***************************************************************************)
EXTENDS Integers, Sequences, FiniteSets, TLC

\* ------------------------------------------------------------------ bounds
\* hosts of the webservers group in a rolling update, in a deployment and in a
\* disaster recovery
NumHosts == 3
DeployHosts == 2
RecoveryHosts == 1
Hosts == 1..NumHosts

\* requests of one kind the application receives in a run of the model
MaxRequests == 2

\* ------------------------------------------------------- program constants
\* variant: two hosts per batch
SerialTwo == 1 + 1

\* serial: of rolling-update.yml
Serial == 1
health_check_retries == 10
deploy_health_retries == 5
recovery_retries == 10
RetentionAgeDays == 7

\* Ages (whole days) a backup left by an earlier run can have.
InitAges == {1, 7, 8}

\* Answers of GET /health: 200, another 2xx, an error status.
Responses == {200, 204, 503}

\* the hosts of inventory.ini, all of them in webservers
Inventory == << "localhost" >>

\* two invocations on the same group: one in progress, one started against it
Invocations == << "in progress", "started" >>

OldContent == [files |-> "old", src |-> "old", deps |-> "old"]

\* What check_prerequisites looks for: the ansible, node and npm commands, the
\* ansible directory, ansible/inventory.ini, ansible/deploy.yml
Prerequisites == {"ansible", "node", "npm", "ansible_dir", "inventory", "playbook"}

\* the ones check_prerequisites only warns about
Optional == {"node", "npm"}

\* What can be missing when deploy.sh starts: nothing, Node.js (node and npm),
\* any one of the others, everything.
MissingChoices ==
    {{}, Optional, Prerequisites} \cup {{p} : p \in Prerequisites \ Optional}

\* a play started with ansible-playbook, without deploy.sh
NoScript == [pc |-> "none", missing |-> {}, down |-> {}, exit |-> 0, out |-> {}]

\* What -e backup_restore_path=... can name: nothing (the default ''), a path
\* with no file, a good archive of the application directory, a file of size
\* zero, a file that is no archive.
BackupPaths == {"", "missing", "valid", "empty", "malformed"}

\* the application directory after file: state=absent, and after it was recreated
AbsentDir == [files |-> "absent", src |-> "absent", deps |-> "absent"]
EmptyDir == [files |-> "none", src |-> "none", deps |-> "none"]

\* an unknown share of what was there, or of what was being written
PartialDir == [files |-> "part", src |-> "part", deps |-> "part"]

\* What the application directory of a host can hold when a recovery starts:
\* the release the archive was taken of, a later release, a broken update.
RecoveryStartContents ==
    { OldContent,
      [files |-> "new", src |-> "new", deps |-> "new"],
      [files |-> "new", src |-> "part", deps |-> "old"] }

VARIABLES
    playbook,        \* the play the operator runs
    runTags,         \* --tags selection: "all" or one tag of the play
    lbDefined,       \* load_balancer_host is defined
    backup_before_deploy, \* inventory variable of the group
    recovery_backup_path, \* what backup_restore_path names, '' when not given
    notification_email,   \* notification_email is defined
    retriesImplyUntil,    \* this ansible-core retries a task that has retries: and no until:
    script,          \* deploy.sh --deploy: where it is, what is missing, what it printed
    playState,       \* per run: "waiting" | "running" | "done" | "aborted"
    curBatch,        \* per run: index of the batch in flight, 0 before the first
    status,          \* per run and host: "pending" | "active" | "ok" | "failed" | "unreachable"
    pos,             \* per run and host: index of its next task in the task list
    svc,             \* per host: systemd state of nodejs-app
    appdir,          \* per host: content of app_dir
    backups,         \* per host: archives in backup_dir
    inLB,            \* per host: registered with the load balancer
    attempts,        \* per run and host: probes made by the running health check
    health_check,    \* per run and host: registered status of the health check, 0 = none
    old_backups,     \* per run and host: registered result of "Clean up old backups"
    notified,        \* per run and host: handlers notified and not yet run
    log,             \* per run and host: the steps the run executed on the host, in order
    API_KEY,         \* process.env.API_KEY of the application, << >> when not set
    http,            \* the GET /api/v1/data requests received, in order of arrival
    users,           \* routes/auth.js: the users array
    regs,            \* the POST /register requests received, in order of arrival
    monitor          \* one invocation of monitor-app restart and the service it watches

vars == <<playbook, runTags, lbDefined, backup_before_deploy, recovery_backup_path,
          notification_email, retriesImplyUntil, script, playState, curBatch, status, pos,
          svc, appdir, backups, inLB, attempts, health_check, old_backups, notified, log,
          API_KEY, http, users, regs, monitor>>

\* the application and the monitor, which no play touches
appVars == <<API_KEY, http, users, regs, monitor>>

\* the ansible-playbook runs in progress
Runs == DOMAIN playState

\* ---------------------------------------------------------------- the plays
\* variant: the service is stopped before the backup is taken
RollingTasksStopFirst ==
    << "gather_facts", "pre_debug", "flush_handlers",
       "lb_remove", "drain", "stop", "backup", "copy_files", "copy_src", "npm",
       "start", "wait_port", "health", "lb_add", "verify", "flush_handlers",
       "find_old", "remove_old", "flush_handlers" >>

\* variant: the old backups are removed before the host is updated
RollingTasksSweepFirst ==
    << "gather_facts", "pre_debug", "flush_handlers",
       "find_old", "remove_old",
       "backup", "lb_remove", "drain", "stop", "copy_files", "copy_src", "npm",
       "start", "wait_port", "health", "lb_add", "verify", "flush_handlers",
       "flush_handlers" >>

\* variant: the host is re-registered before its health check
RollingTasksAddFirst ==
    << "gather_facts", "pre_debug", "flush_handlers",
       "backup", "lb_remove", "drain", "stop", "copy_files", "copy_src", "npm",
       "start", "wait_port", "lb_add", "health", "verify", "flush_handlers",
       "find_old", "remove_old", "flush_handlers" >>

RollingTasks ==
    << "gather_facts", "pre_debug", "flush_handlers",
       "backup", "lb_remove", "drain", "stop", "copy_files", "copy_src", "npm",
       "start", "wait_port", "health", "lb_add", "verify", "flush_handlers",
       "find_old", "remove_old", "flush_handlers" >>

\* deploy.yml; "setup" stands for the package and system tasks before the
\* application is touched, "configure" for the PM2, systemd unit, nginx, firewall,
\* monitoring and cron tasks between the dependency install and the service start,
\* "copy_static" for the public directory and the environment file
DeployTasks ==
    << "gather_facts", "setup", "flush_handlers",
       "stop", "backup", "copy_files", "copy_src", "copy_static", "npm",
       "configure", "start", "wait_port", "health", "nginx_health", "verify",
       "flush_handlers" >>

\* variant: the services are stopped before the backup path is looked at
RecoveryTasksStopFirst ==
    << "gather_facts", "stop_all", "check_path", "stat_backup", "fail_missing",
       "snapshot", "wipe", "recreate", "copy_backup", "restore",
       "npm_present", "start", "start_nginx", "wait_port", "health",
       "cleanup_tmp", "display", "notify_mail", "flush_handlers" >>

\* variant: the directory is removed before the snapshot is taken
RecoveryTasksWipeFirst ==
    << "gather_facts", "check_path", "stat_backup", "fail_missing",
       "stop_all", "wipe", "snapshot", "recreate", "copy_backup", "restore",
       "npm_present", "start", "start_nginx", "wait_port", "health",
       "cleanup_tmp", "display", "notify_mail", "flush_handlers" >>

\* variant: the directory is not removed before the archive is unpacked
RecoveryTasksNoWipe ==
    << "gather_facts", "check_path", "stat_backup", "fail_missing",
       "stop_all", "snapshot", "copy_backup", "restore",
       "npm_present", "start", "start_nginx", "wait_port", "health",
       "cleanup_tmp", "display", "notify_mail", "flush_handlers" >>

\* disaster-recovery.yml
RecoveryTasks ==
    << "gather_facts", "check_path", "stat_backup", "fail_missing",
       "stop_all", "snapshot", "wipe", "recreate", "copy_backup", "restore",
       "npm_present", "start", "start_nginx", "wait_port", "health",
       "cleanup_tmp", "display", "notify_mail", "flush_handlers" >>

Tasks ==
    CASE playbook = "rolling-update" -> RollingTasks
      [] playbook = "deploy" -> DeployTasks
      [] OTHER -> RecoveryTasks

\* tags: of each task; facts gathering and handler flushes run under any tag
TaskTag(t) ==
    CASE t \in {"gather_facts", "flush_handlers"} -> "always"
      [] playbook # "rolling-update" -> "untagged"
      [] t = "backup" -> "backup"
      [] t = "drain" -> "drain"
      [] t \in {"copy_files", "copy_src", "npm"} -> "update"
      [] t \in {"find_old", "remove_old"} -> "cleanup"
      [] OTHER -> "untagged"

RollingTags == {"backup", "drain", "update", "cleanup"}

\* variant: the backup task carries ignore_errors too
IgnoreErrorsBackup(t) ==
    CASE playbook = "rolling-update" -> t \in {"lb_remove", "lb_add", "backup"}
      [] playbook = "deploy" -> t \in {"stop", "backup"}
      [] OTHER -> t \in {"stop_all", "snapshot", "notify_mail"}

\* variant: the deregistration call has no ignore_errors
IgnoreErrorsNoRemove(t) ==
    CASE playbook = "rolling-update" -> t \in {"lb_add"}
      [] playbook = "deploy" -> t \in {"stop", "backup"}
      [] OTHER -> t \in {"stop_all", "snapshot", "notify_mail"}

\* variant: the stop of the service carries ignore_errors
IgnoreErrorsStop(t) ==
    CASE playbook = "rolling-update" -> t \in {"lb_remove", "lb_add", "stop"}
      [] playbook = "deploy" -> t \in {"stop", "backup"}
      [] OTHER -> t \in {"stop_all", "snapshot", "notify_mail"}

\* variant: the notification of disaster-recovery.yml has no ignore_errors
IgnoreErrorsNoMail(t) ==
    CASE playbook = "rolling-update" -> t \in {"lb_remove", "lb_add"}
      [] playbook = "deploy" -> t \in {"stop", "backup"}
      [] OTHER -> t \in {"stop_all", "snapshot"}

\* variant: the two sweep tasks carry ignore_errors
IgnoreErrorsSweep(t) ==
    CASE playbook = "rolling-update" -> t \in {"lb_remove", "lb_add", "find_old", "remove_old"}
      [] playbook = "deploy" -> t \in {"stop", "backup"}
      [] OTHER -> t \in {"stop_all", "snapshot", "notify_mail"}

\* variant: the health check carries ignore_errors too
IgnoreErrorsHealth(t) ==
    CASE playbook = "rolling-update" -> t \in {"lb_remove", "lb_add", "health"}
      [] playbook = "deploy" -> t \in {"stop", "backup"}
      [] OTHER -> t \in {"stop_all", "snapshot", "notify_mail"}

\* ignore_errors: yes
IgnoreErrors(t) ==
    CASE playbook = "rolling-update" -> t \in {"lb_remove", "lb_add"}
      [] playbook = "deploy" -> t \in {"stop", "backup"}
      [] OTHER -> t \in {"stop_all", "snapshot", "notify_mail"}

\* variant: the re-registration is conditioned the wrong way round
WhenAddInverted(t) ==
    CASE t = "lb_remove" -> lbDefined
      [] t = "lb_add" -> ~lbDefined
      [] t = "backup" /\ playbook = "deploy" -> backup_before_deploy
      [] t = "notify_mail" -> notification_email
      [] OTHER -> TRUE

\* when: conditions of the tasks
When(t) ==
    CASE t \in {"lb_remove", "lb_add"} -> lbDefined
      [] t = "backup" /\ playbook = "deploy" -> backup_before_deploy
      [] t = "notify_mail" -> notification_email
      [] OTHER -> TRUE

Selected(t) ==
    /\ runTags = "all" \/ TaskTag(t) \in {runTags, "always"}
    /\ When(t)

\* notify: of each task (no task of rolling-update.yml notifies a handler)
\* variant: rolling-update.yml notifies a restart from its copies as well
NotifyBoth(t) ==
    IF t \in {"copy_files", "copy_src", "copy_static"}
    THEN {"restart nodejs app"} ELSE {}

Notify(t) ==
    IF playbook = "deploy" /\ t \in {"copy_files", "copy_src", "copy_static"}
    THEN {"restart nodejs app"} ELSE {}

\* serial: the hosts of batch b, in inventory order
\* hosts: webservers, in inventory order
GroupSize ==
    CASE Cardinality(Runs) > 1 -> Len(Inventory)
      [] playbook = "rolling-update" -> NumHosts
      [] playbook = "deploy" -> DeployHosts
      [] OTHER -> RecoveryHosts
Group == 1..GroupSize

\* variant: every play takes its hosts one at a time
BatchSizeSerial == Serial

\* serial: n cuts the group into batches of n hosts; without it the group is one batch
BatchSize == IF playbook = "rolling-update" THEN Serial ELSE GroupSize
BatchOf(h) == ((h - 1) \div BatchSize) + 1
NumBatches == BatchOf(GroupSize)
BatchHosts(b) == {h \in Group : BatchOf(h) = b}

\* variant: only a host that succeeded counts as done with its batch
FinishedOnlyOk(r, h) == status[r][h] = "ok"

Finished(r, h) == status[r][h] \in {"ok", "failed", "unreachable"}

\* variant: a failed task does not count against the batch
FailedOnlyUnreachable(r, h) == status[r][h] = "unreachable"

Failed(r, h) == status[r][h] \in {"failed", "unreachable"}

Cur(r, h) == Tasks[pos[r][h]]

\* linear strategy: a host runs its next task once no host of the batch is behind
CanRun(r, h, t) ==
    /\ playState[r] = "running"
    /\ status[r][h] = "active"
    /\ Cur(r, h) = t
    /\ Selected(t)
    /\ \A g \in BatchHosts(curBatch[r]) : status[r][g] = "active" => pos[r][g] >= pos[r][h]

Advance(r, h) ==
    /\ pos' = [pos EXCEPT ![r][h] = IF @ = Len(Tasks) THEN @ ELSE @ + 1]
    /\ status' = [status EXCEPT ![r][h] = IF pos[r][h] = Len(Tasks) THEN "ok" ELSE @]

\* variant: a failed task takes every host of the batch out of the play
FailHostFatal(r, h) ==
    /\ status' = [status EXCEPT ![r] =
                    [g \in Hosts |->
                       IF g \in BatchHosts(curBatch[r]) /\ status[r][g] = "active"
                       THEN "failed" ELSE status[r][g]]]
    /\ UNCHANGED pos

FailHost(r, h) ==
    /\ status' = [status EXCEPT ![r][h] = "failed"]
    /\ UNCHANGED pos

Outcome(r, h, ok) ==
    IF ok \/ IgnoreErrors(Cur(r, h)) THEN Advance(r, h) ELSE FailHost(r, h)

Logged(r, h, e) == log' = [log EXCEPT ![r][h] = Append(@, e)]

\* the state in which n runs of the chosen play start
InitPlay(n, plays, scripts) ==
    /\ playbook \in plays
    /\ script \in scripts
    /\ runTags \in IF playbook = "rolling-update" THEN {"all"} \cup RollingTags ELSE {"all"}
    /\ lbDefined \in IF playbook = "rolling-update" THEN BOOLEAN ELSE {FALSE}
    /\ backup_before_deploy \in IF playbook = "deploy" THEN BOOLEAN ELSE {TRUE}
    /\ recovery_backup_path \in IF playbook = "disaster-recovery" THEN BackupPaths ELSE {""}
    /\ notification_email \in IF playbook = "disaster-recovery" THEN BOOLEAN ELSE {FALSE}
    /\ retriesImplyUntil \in IF playbook = "disaster-recovery" THEN BOOLEAN ELSE {FALSE}
    /\ playState = [r \in 1..n |-> IF script.pc = "none" THEN "running" ELSE "waiting"]
    /\ curBatch = [r \in 1..n |-> 0]
    /\ status = [r \in 1..n |-> [h \in Hosts |-> "pending"]]
    /\ pos = [r \in 1..n |-> [h \in Hosts |-> 1]]
    /\ svc = [h \in Hosts |-> "running"]
    /\ \E c \in IF playbook = "disaster-recovery" THEN RecoveryStartContents ELSE {OldContent} :
          appdir = [h \in Hosts |-> c]
    /\ \E ages \in IF playbook = "rolling-update" THEN SUBSET InitAges ELSE {{}} :
          backups = [h \in Hosts |->
                       {[name |-> "earlier", age |-> a, content |-> OldContent] : a \in ages}]
    /\ inLB = [h \in Hosts |-> TRUE]
    /\ attempts = [r \in 1..n |-> [h \in Hosts |-> 0]]
    /\ health_check = [r \in 1..n |-> [h \in Hosts |-> 0]]
    /\ old_backups = [r \in 1..n |-> [h \in Hosts |-> {}]]
    /\ notified = [r \in 1..n |-> [h \in Hosts |-> {}]]
    /\ log = [r \in 1..n |-> [h \in Hosts |-> << >>]]

\* routes/auth.js: the mock user database the module starts with
InitialUsers ==
    << [id |-> 1, email |-> "admin@example.com"], [id |-> 1 + 1, email |-> "user@example.com"] >>

\* no monitor-app restart is running
NoMonitor == [pc |-> "none", webhook |-> FALSE, active |-> TRUE, listening |-> TRUE,
              code |-> 200, checks |-> << >>, restarts |-> << >>, alerts |-> << >>,
              out |-> << >>]

\* the application receives no request and the monitor does not run
AppIdle ==
    /\ API_KEY = << >>
    /\ http = << >>
    /\ users = InitialUsers
    /\ regs = << >>
    /\ monitor = NoMonitor

\* a run of a play, started directly or by deploy.sh
InitRuns(n, plays, scripts) == InitPlay(n, plays, scripts) /\ AppIdle

\* no play is run
NoPlay == [NoScript EXCEPT !.pc = "off"]
PlayIdle == InitPlay(1, {"deploy"}, {NoPlay}) /\ backup_before_deploy

\* one ansible-playbook run
Init == InitRuns(1, {"rolling-update", "deploy"}, {NoScript})

\* exit status of ansible-playbook: 0 when no host failed, 2 with failed hosts,
\* 4 with unreachable ones
\* variant: only failed hosts count, unreachable ones do not
ExitStatusFailedOnly(r) ==
    IF \E h \in Group : status[r][h] = "failed" THEN 2 ELSE 0

\* ansible-playbook's exit status: 2 with failed hosts, 4 with unreachable ones
ExitStatus(r) ==
    (IF \E h \in Group : status[r][h] = "failed" THEN 2 ELSE 0)
    + (IF \E h \in Group : status[r][h] = "unreachable" THEN 4 ELSE 0)

\* ------------------------------------------------------------ play control
cfgVars == <<playbook, runTags, lbDefined, backup_before_deploy, recovery_backup_path,
             notification_email, retriesImplyUntil>>
ctlVars == <<playState, curBatch>>

StartBatch(r) ==
    /\ playState[r] = "running"
    /\ curBatch[r] < NumBatches
    /\ curBatch[r] > 0 =>
          /\ \A h \in BatchHosts(curBatch[r]) : Finished(r, h)
          /\ \E h \in BatchHosts(curBatch[r]) : ~Failed(r, h)
    /\ curBatch' = [curBatch EXCEPT ![r] = @ + 1]
    /\ status' = [status EXCEPT ![r] =
                    [h \in Hosts |->
                       IF h \in BatchHosts(curBatch[r] + 1) THEN "active" ELSE status[r][h]]]
    /\ UNCHANGED <<cfgVars, appVars, script, playState, pos, svc, appdir,
                   backups, inLB, attempts, health_check, old_backups, notified, log>>

EndPlay(r) ==
    /\ playState[r] = "running"
    /\ curBatch[r] > 0
    /\ \A h \in BatchHosts(curBatch[r]) : Finished(r, h)
    /\ \/ /\ \A h \in BatchHosts(curBatch[r]) : Failed(r, h)
          /\ playState' = [playState EXCEPT ![r] = "aborted"]
       \/ /\ \E h \in BatchHosts(curBatch[r]) : ~Failed(r, h)
          /\ curBatch[r] = NumBatches
          /\ playState' = [playState EXCEPT ![r] = "done"]
    /\ UNCHANGED <<cfgVars, appVars, script, curBatch, status, pos, svc, appdir,
                   backups, inLB, attempts, health_check, old_backups, notified, log>>

\* ------------------------------------------------- tasks of the host pipeline

\* implicit fact gathering at the start of each batch; an unreachable host leaves the play
GatherFacts(r, h) ==
    /\ CanRun(r, h, "gather_facts")
    /\ \E reachable \in BOOLEAN :
          IF reachable THEN Advance(r, h)
          ELSE status' = [status EXCEPT ![r][h] = "unreachable"] /\ UNCHANGED pos
    /\ UNCHANGED <<cfgVars, appVars, script, ctlVars, svc, appdir, backups, inLB, attempts,
                   health_check, old_backups, notified, log>>

\* a task left out by --tags or by its when: condition
SkipTask(r, h) ==
    /\ playState[r] = "running"
    /\ status[r][h] = "active"
    /\ ~Selected(Cur(r, h))
    /\ \A g \in BatchHosts(curBatch[r]) : status[r][g] = "active" => pos[r][g] >= pos[r][h]
    /\ Advance(r, h)
    /\ UNCHANGED <<cfgVars, appVars, script, ctlVars, svc, appdir, backups, inLB, attempts,
                   health_check, old_backups, notified, log>>

\* debug: tasks ("Check if this is a rolling update", "Verify update success")
DebugTask(r, h) ==
    /\ CanRun(r, h, "pre_debug") \/ CanRun(r, h, "verify")
    /\ Logged(r, h, Cur(r, h))
    /\ Advance(r, h)
    /\ UNCHANGED <<cfgVars, appVars, script, ctlVars, svc, appdir, backups, inLB, attempts,
                   health_check, old_backups, notified>>

\* archive: app_dir -> backup_dir/app_name-pre-update-<epoch>.tar.gz in the
\* rolling update, backup_dir/app_name-<epoch>.tar.gz in the deployment
BackupName == IF playbook = "rolling-update" THEN "pre-update" ELSE "deploy"

PreUpdateBackup(h) == [name |-> BackupName, age |-> 0, content |-> appdir[h]]

CreateBackup(r, h) ==
    /\ CanRun(r, h, "backup")
    /\ \E ok \in BOOLEAN :
          /\ backups' = [backups EXCEPT ![h] = IF ok THEN @ \cup {PreUpdateBackup(h)} ELSE @]
          /\ Logged(r, h, IF ok THEN "backup_ok" ELSE "backup_failed")
          /\ Outcome(r, h, ok)
    /\ UNCHANGED <<cfgVars, appVars, script, ctlVars, svc, appdir, inLB, attempts,
                   health_check, old_backups, notified>>

\* uri: POST http://<load_balancer_host>/remove/<host>
RemoveFromLB(r, h) ==
    /\ CanRun(r, h, "lb_remove")
    /\ \E ok \in BOOLEAN :
          /\ inLB' = [inLB EXCEPT ![h] = IF ok THEN FALSE ELSE @]
          /\ Logged(r, h, IF ok THEN "lb_remove" ELSE "lb_remove_failed")
          /\ Outcome(r, h, ok)
    /\ UNCHANGED <<cfgVars, appVars, script, ctlVars, svc, appdir, backups, attempts,
                   health_check, old_backups, notified>>

\* wait_for: timeout: 30
Drain(r, h) ==
    /\ CanRun(r, h, "drain")
    /\ Logged(r, h, "drain")
    /\ Advance(r, h)
    /\ UNCHANGED <<cfgVars, appVars, script, ctlVars, svc, appdir, backups, inLB, attempts,
                   health_check, old_backups, notified>>

\* systemd: state: stopped
StopService(r, h) ==
    /\ CanRun(r, h, "stop")
    /\ \E ok \in BOOLEAN :
          /\ svc' = [svc EXCEPT ![h] = IF ok THEN "stopped" ELSE @]
          /\ Logged(r, h, "stop")
          /\ Outcome(r, h, ok)
    /\ UNCHANGED <<cfgVars, appVars, script, ctlVars, appdir, backups, inLB, attempts,
                   health_check, old_backups, notified>>

\* what a copy or an install leaves behind: all of it, or on failure "part", an
\* unknown share of it (none of it included)
Written(old, ok) == IF ok THEN {"new"} ELSE {"part"}

\* copy: package.json, app.js, ecosystem.config.js, healthcheck.js -> app_dir
CopyFiles(r, h) ==
    /\ CanRun(r, h, "copy_files")
    /\ \E ok \in BOOLEAN : \E w \in Written(appdir[h].files, ok) :
          /\ appdir' = [appdir EXCEPT ![h].files = w]
          /\ Logged(r, h, "copy")
          /\ notified' = [notified EXCEPT ![r][h] = IF ok THEN @ \cup Notify("copy_files") ELSE @]
          /\ Outcome(r, h, ok)
    /\ UNCHANGED <<cfgVars, appVars, script, ctlVars, svc, backups, inLB, attempts,
                   health_check, old_backups>>

\* copy: ../src/ -> app_dir/src/
CopySrc(r, h) ==
    /\ CanRun(r, h, "copy_src")
    /\ \E ok \in BOOLEAN : \E w \in Written(appdir[h].src, ok) :
          /\ appdir' = [appdir EXCEPT ![h].src = w]
          /\ Logged(r, h, "copy")
          /\ notified' = [notified EXCEPT ![r][h] = IF ok THEN @ \cup Notify("copy_src") ELSE @]
          /\ Outcome(r, h, ok)
    /\ UNCHANGED <<cfgVars, appVars, script, ctlVars, svc, backups, inLB, attempts,
                   health_check, old_backups>>

\* npm: path: app_dir, production: yes
NpmInstall(r, h) ==
    /\ CanRun(r, h, "npm")
    /\ \E ok \in BOOLEAN : \E w \in Written(appdir[h].deps, ok) :
          /\ appdir' = [appdir EXCEPT ![h].deps = w]
          /\ Logged(r, h, "npm")
          /\ Outcome(r, h, ok)
    /\ UNCHANGED <<cfgVars, appVars, script, ctlVars, svc, backups, inLB, attempts,
                   health_check, old_backups, notified>>

\* systemd: state: started
StartService(r, h) ==
    /\ CanRun(r, h, "start")
    /\ \E ok \in BOOLEAN :
          /\ svc' = [svc EXCEPT ![h] = IF ok THEN "running" ELSE @]
          /\ Logged(r, h, IF ok THEN "start" ELSE "start_failed")
          /\ Outcome(r, h, ok)
    /\ UNCHANGED <<cfgVars, appVars, script, ctlVars, appdir, backups, inLB, attempts,
                   health_check, old_backups, notified>>

\* wait_for: port: app_port, timeout: 60
WaitPort(r, h) ==
    /\ CanRun(r, h, "wait_port")
    /\ \E ok \in BOOLEAN :
          /\ Logged(r, h, IF ok THEN "port_open" ELSE "port_timeout")
          /\ Outcome(r, h, ok)
    /\ UNCHANGED <<cfgVars, appVars, script, ctlVars, svc, appdir, backups, inLB, attempts,
                   health_check, old_backups, notified>>

\* variant: the first run of the task counts as one of the n
MaxAttemptsNoFirst(retries) == retries

\* retries: n with until: runs the task once and retries it up to n times
MaxAttempts(retries) == retries + 1

HealthRetries ==
    CASE playbook = "rolling-update" -> health_check_retries
      [] playbook = "deploy" -> deploy_health_retries
      [] OTHER -> recovery_retries

\* until: is present on the health checks of rolling-update.yml and deploy.yml,
\* absent from "Verify recovery success"
HasUntil == playbook # "disaster-recovery"

\* the probes a health check may make: without until: the task runs once, unless
\* this ansible-core retries such a task until it succeeds
MaxProbes ==
    IF HasUntil \/ retriesImplyUntil THEN MaxAttempts(HealthRetries) ELSE 1

\* until: health_check.status == 200
HealthUntil(resp) == resp = 200

\* uri: GET http://localhost:app_port/health, one probe of the retry loop
HealthCheck(r, h) ==
    /\ CanRun(r, h, "health")
    /\ \E resp \in Responses :
          /\ health_check' = [health_check EXCEPT ![r][h] = resp]
          /\ IF HealthUntil(resp)
             THEN /\ attempts' = [attempts EXCEPT ![r][h] = 0]
                  /\ Logged(r, h, "health_ok")
                  /\ Outcome(r, h, TRUE)
             ELSE IF attempts[r][h] + 1 >= MaxProbes
             THEN /\ attempts' = [attempts EXCEPT ![r][h] = 0]
                  /\ Logged(r, h, "health_failed")
                  /\ Outcome(r, h, FALSE)
             ELSE /\ attempts' = [attempts EXCEPT ![r][h] = @ + 1]
                  /\ UNCHANGED <<log, pos, status>>
    /\ UNCHANGED <<cfgVars, appVars, script, ctlVars, svc, appdir, backups, inLB, old_backups, notified>>

\* uri: POST http://<load_balancer_host>/add/<host>
AddToLB(r, h) ==
    /\ CanRun(r, h, "lb_add")
    /\ \E ok \in BOOLEAN :
          /\ inLB' = [inLB EXCEPT ![h] = IF ok THEN TRUE ELSE @]
          /\ Logged(r, h, IF ok THEN "lb_add" ELSE "lb_add_failed")
          /\ Outcome(r, h, ok)
    /\ UNCHANGED <<cfgVars, appVars, script, ctlVars, svc, appdir, backups, attempts,
                   health_check, old_backups, notified>>

\* variant: every archive is selected, whatever its age
AgeFilterAny(b) == b.age >= 0

\* variant: only files strictly older than the age are selected
AgeFilterStrict(b) == b.age > RetentionAgeDays

\* find: age: "7d" selects the files whose age is at least 7 days
AgeFilter(b) == b.age >= RetentionAgeDays

FindOld(r, h) ==
    /\ CanRun(r, h, "find_old")
    /\ \E ok \in BOOLEAN :
          /\ old_backups' = [old_backups EXCEPT ![r][h] =
                               IF ok THEN {b \in backups[h] : AgeFilter(b)} ELSE @]
          /\ Logged(r, h, IF ok THEN "find_old" ELSE "find_old_failed")
          /\ Outcome(r, h, ok)
    /\ UNCHANGED <<cfgVars, appVars, script, ctlVars, svc, appdir, backups, inLB, attempts,
                   health_check, notified>>

\* file: state: absent with_items: old_backups.files
RemoveOld(r, h) ==
    /\ CanRun(r, h, "remove_old")
    /\ \E ok \in BOOLEAN :
       \E gone \in IF ok THEN {old_backups[r][h]} ELSE (SUBSET old_backups[r][h]) \ {old_backups[r][h]} :
          /\ backups' = [backups EXCEPT ![h] = @ \ gone]
          /\ Logged(r, h, IF ok THEN "sweep" ELSE "sweep_failed")
          /\ Outcome(r, h, ok)
    /\ UNCHANGED <<cfgVars, appVars, script, ctlVars, svc, appdir, inLB, attempts,
                   health_check, old_backups, notified>>

\* the tasks of deploy.yml that touch neither the application directory, its
\* service nor its backups; each fails its host when it fails
PlainTask(r, h) ==
    /\ \/ CanRun(r, h, "setup") \/ CanRun(r, h, "configure")
       \/ CanRun(r, h, "copy_static") \/ CanRun(r, h, "nginx_health")
    /\ \E ok \in BOOLEAN :
          /\ notified' = [notified EXCEPT ![r][h] = IF ok THEN @ \cup Notify(Cur(r, h)) ELSE @]
          /\ Outcome(r, h, ok)
    /\ UNCHANGED <<cfgVars, appVars, script, ctlVars, svc, appdir, backups, inLB, attempts,
                   health_check, old_backups, log>>

\* tar unpacks over what is there: an archived file replaces the file of its
\* name, a file the archive does not hold stays
Unpack(dir, archive) ==
    [f \in DOMAIN dir |->
        IF dir[f] \in {archive[f], "none", "absent"} THEN archive[f] ELSE "mixed"]

\* handler "rollback on failure" (when: health_check.status != 200): stop the
\* service, unarchive the pre-update archive over /, start the service, probe
\* /health, report.  The steps run in order and the first failure ends the block.
RollbackSteps == << "stop", "restore", "start", "rollback_verify", "rollback_done" >>

RollbackWhen(r, h) == health_check[r][h] # 200

RestoreSource(h) == {b \in backups[h] : b.name = "pre-update" /\ b.age = 0}

\* the state after the first n steps of the block succeeded
RollbackSvc(h, n) == IF n >= 3 THEN "running" ELSE IF n >= 1 THEN "stopped" ELSE svc[h]
RollbackDir(h, n) ==
    IF n >= 2 THEN Unpack(appdir[h], (CHOOSE b \in RestoreSource(h) : TRUE).content)
    ELSE appdir[h]

\* handlers run at the end of each section of the play, for the hosts that notified them
FlushHandlers(r, h) ==
    /\ CanRun(r, h, "flush_handlers")
    /\ IF "rollback on failure" \in notified[r][h] /\ RollbackWhen(r, h)
       THEN \E n \in 0..Len(RollbackSteps) :
               /\ n >= 2 => RestoreSource(h) # {}
               /\ svc' = [svc EXCEPT ![h] = RollbackSvc(h, n)]
               /\ appdir' = [appdir EXCEPT ![h] = RollbackDir(h, n)]
               /\ log' = [log EXCEPT ![r][h] = @ \o SubSeq(RollbackSteps, 1, n)]
               /\ Outcome(r, h, n = Len(RollbackSteps))
       ELSE IF "restart nodejs app" \in notified[r][h]
       THEN \E ok \in BOOLEAN :
               /\ svc' = [svc EXCEPT ![h] = IF ok THEN "running" ELSE "stopped"]
               /\ Logged(r, h, IF ok THEN "restart" ELSE "restart_failed")
               /\ Outcome(r, h, ok)
               /\ UNCHANGED appdir
       ELSE /\ Advance(r, h)
            /\ UNCHANGED <<svc, appdir, log>>
    /\ notified' = [notified EXCEPT ![r][h] = {}]
    /\ UNCHANGED <<cfgVars, appVars, script, ctlVars, backups, inLB, attempts, health_check, old_backups>>

\* ------------------------------------------------ disaster-recovery.yml
\* fail: when: recovery_backup_path == ""
CheckPath(r, h) ==
    /\ CanRun(r, h, "check_path")
    /\ IF recovery_backup_path = ""
       THEN Logged(r, h, "no_backup_specified") /\ FailHost(r, h)
       ELSE Advance(r, h) /\ UNCHANGED log
    /\ UNCHANGED <<cfgVars, appVars, script, ctlVars, svc, appdir, backups, inLB, attempts,
                   health_check, old_backups, notified>>

\* stat: path: recovery_backup_path, delegate_to: localhost, register: backup_file
StatBackup(r, h) ==
    /\ CanRun(r, h, "stat_backup")
    /\ Advance(r, h)
    /\ UNCHANGED <<cfgVars, appVars, script, ctlVars, svc, appdir, backups, inLB, attempts,
                   health_check, old_backups, notified, log>>

\* variant: the file must also be larger than zero
BackupFileExistsNonEmpty == recovery_backup_path \in {"valid", "malformed"}

\* backup_file.stat.exists
BackupFileExists == recovery_backup_path \in {"valid", "empty", "malformed"}

\* fail: when: not backup_file.stat.exists
FailMissing(r, h) ==
    /\ CanRun(r, h, "fail_missing")
    /\ IF ~BackupFileExists
       THEN Logged(r, h, "backup_not_found") /\ FailHost(r, h)
       ELSE Advance(r, h) /\ UNCHANGED log
    /\ UNCHANGED <<cfgVars, appVars, script, ctlVars, svc, appdir, backups, inLB, attempts,
                   health_check, old_backups, notified>>

\* systemd: state: stopped, loop: nodejs-app, nginx, ignore_errors: yes
StopAll(r, h) ==
    /\ CanRun(r, h, "stop_all")
    /\ \E ok \in BOOLEAN :
          /\ svc' = [svc EXCEPT ![h] = IF ok THEN "stopped" ELSE @]
          /\ Logged(r, h, "stop")
          /\ Outcome(r, h, ok)
    /\ UNCHANGED <<cfgVars, appVars, script, ctlVars, appdir, backups, inLB, attempts,
                   health_check, old_backups, notified>>

\* archive: app_dir -> backup_dir/app_name-pre-recovery-<epoch>.tar.gz
PreRecoveryBackup(h) == [name |-> "pre-recovery", age |-> 0, content |-> appdir[h]]

Snapshot(r, h) ==
    /\ CanRun(r, h, "snapshot")
    /\ \E ok \in BOOLEAN :
          /\ backups' = [backups EXCEPT ![h] = IF ok THEN @ \cup {PreRecoveryBackup(h)} ELSE @]
          /\ Logged(r, h, IF ok THEN "snapshot_ok" ELSE "snapshot_failed")
          /\ Outcome(r, h, ok)
    /\ UNCHANGED <<cfgVars, appVars, script, ctlVars, svc, appdir, inLB, attempts,
                   health_check, old_backups, notified>>

\* file: path: app_dir, state: absent; a removal that fails has removed an
\* unknown share of the directory
Wipe(r, h) ==
    /\ CanRun(r, h, "wipe")
    /\ \E ok \in BOOLEAN :
          /\ appdir' = [appdir EXCEPT ![h] =
                           IF ok THEN AbsentDir
                           ELSE PartialDir]
          /\ Logged(r, h, IF ok THEN "wipe" ELSE "wipe_failed")
          /\ Outcome(r, h, ok)
    /\ UNCHANGED <<cfgVars, appVars, script, ctlVars, svc, backups, inLB, attempts,
                   health_check, old_backups, notified>>

\* file: path: app_dir, state: directory
Recreate(r, h) ==
    /\ CanRun(r, h, "recreate")
    /\ \E ok \in BOOLEAN :
          /\ appdir' = [appdir EXCEPT ![h] =
                           IF ok /\ @ = AbsentDir THEN EmptyDir ELSE @]
          /\ Logged(r, h, IF ok THEN "recreate" ELSE "recreate_failed")
          /\ Outcome(r, h, ok)
    /\ UNCHANGED <<cfgVars, appVars, script, ctlVars, svc, backups, inLB, attempts,
                   health_check, old_backups, notified>>

\* copy: recovery_backup_path -> /tmp/recovery-backup.tar.gz
CopyBackup(r, h) ==
    /\ CanRun(r, h, "copy_backup")
    /\ \E ok \in BOOLEAN :
          /\ Logged(r, h, IF ok THEN "copy_backup" ELSE "copy_backup_failed")
          /\ Outcome(r, h, ok)
    /\ UNCHANGED <<cfgVars, appVars, script, ctlVars, svc, appdir, backups, inLB, attempts,
                   health_check, old_backups, notified>>

\* the content archived in the file backup_restore_path names
ArchiveContent == OldContent

\* unarchive: src: /tmp/recovery-backup.tar.gz, dest: /, remote_src: yes.  A
\* file that is no archive is refused before anything is unpacked; unpacking a
\* good archive can still fail on the way and leave an unknown share of it
Restore(r, h) ==
    /\ CanRun(r, h, "restore")
    /\ \E ok \in IF recovery_backup_path = "valid" THEN BOOLEAN ELSE {FALSE} :
          /\ appdir' = [appdir EXCEPT ![h] =
                           IF ok THEN Unpack(@, ArchiveContent)
                           ELSE IF recovery_backup_path = "valid"
                           THEN PartialDir
                           ELSE @]
          /\ Logged(r, h, IF ok THEN "restore" ELSE "restore_failed")
          /\ Outcome(r, h, ok)
    /\ UNCHANGED <<cfgVars, appVars, script, ctlVars, svc, backups, inLB, attempts,
                   health_check, old_backups, notified>>

\* npm: path: app_dir, production: yes, state: present; installs what
\* package.json asks for and node_modules lacks
NpmPresent(r, h) ==
    /\ CanRun(r, h, "npm_present")
    /\ \E ok \in BOOLEAN :
          /\ appdir' = [appdir EXCEPT ![h].deps =
                           IF ~ok THEN "part" ELSE IF @ = appdir[h].files THEN @
                           ELSE appdir[h].files]
          /\ Logged(r, h, IF ok THEN "npm" ELSE "npm_failed")
          /\ Outcome(r, h, ok)
    /\ UNCHANGED <<cfgVars, appVars, script, ctlVars, svc, backups, inLB, attempts,
                   health_check, old_backups, notified>>

\* the tasks of disaster-recovery.yml that change nothing the model keeps:
\* starting nginx, removing /tmp/recovery-backup.tar.gz, the debug: report,
\* the mail: notification
RecoveryPlainTask(r, h) ==
    /\ \/ CanRun(r, h, "start_nginx") \/ CanRun(r, h, "cleanup_tmp")
       \/ CanRun(r, h, "display") \/ CanRun(r, h, "notify_mail")
    /\ \E ok \in IF Cur(r, h) = "display" THEN {TRUE} ELSE BOOLEAN :
          /\ log' = [log EXCEPT ![r][h] =
                        Append(@, IF ok THEN Cur(r, h) ELSE "task_failed")]
          /\ Outcome(r, h, ok)
    /\ UNCHANGED <<cfgVars, appVars, script, ctlVars, svc, appdir, backups, inLB, attempts,
                   health_check, old_backups, notified>>

\* the steps of a host in disaster-recovery.yml
RecoveryStep(r, h) ==
    \/ GatherFacts(r, h)
    \/ SkipTask(r, h)
    \/ CheckPath(r, h)
    \/ StatBackup(r, h)
    \/ FailMissing(r, h)
    \/ StopAll(r, h)
    \/ Snapshot(r, h)
    \/ Wipe(r, h)
    \/ Recreate(r, h)
    \/ CopyBackup(r, h)
    \/ Restore(r, h)
    \/ NpmPresent(r, h)
    \/ StartService(r, h)
    \/ RecoveryPlainTask(r, h)
    \/ WaitPort(r, h)
    \/ HealthCheck(r, h)
    \/ FlushHandlers(r, h)

\* the steps of a host in rolling-update.yml
RollingStep(r, h) ==
    \/ GatherFacts(r, h)
    \/ SkipTask(r, h)
    \/ DebugTask(r, h)
    \/ CreateBackup(r, h)
    \/ RemoveFromLB(r, h)
    \/ Drain(r, h)
    \/ StopService(r, h)
    \/ CopyFiles(r, h)
    \/ CopySrc(r, h)
    \/ NpmInstall(r, h)
    \/ StartService(r, h)
    \/ WaitPort(r, h)
    \/ HealthCheck(r, h)
    \/ AddToLB(r, h)
    \/ FindOld(r, h)
    \/ RemoveOld(r, h)
    \/ FlushHandlers(r, h)

\* deploy.yml adds its plain tasks
HostStep(r, h) == RollingStep(r, h) \/ PlainTask(r, h)

Next == \E r \in Runs : StartBatch(r) \/ EndPlay(r) \/ \E h \in Hosts : HostStep(r, h)

Spec == Init /\ [][Next]_vars

\* A complete serial rolling update, every task of it eventually run.
InitRolling == Init /\ playbook = "rolling-update" /\ runTags = "all"
NextRolling == \E r \in Runs : StartBatch(r) \/ EndPlay(r) \/ \E h \in Hosts : RollingStep(r, h)
RollingFairSpec == InitRolling /\ [][NextRolling]_vars /\ WF_vars(NextRolling)

\* Several complete runs of the same play started together on the inventory of
\* the repository: nothing in deploy.sh or in the plays makes a run wait for, or
\* give way to, another.
InitConcurrent ==
    /\ InitRuns(Len(Invocations), {"rolling-update", "deploy"}, {NoScript})
    /\ runTags = "all"
    /\ \A h \in Hosts : backups[h] = {}
ConcurrentSpec == InitConcurrent /\ [][Next]_vars

\* One complete run of any of the three plays: every use of the health check.
InitAnyPlay ==
    /\ InitRuns(1, {"rolling-update", "deploy", "disaster-recovery"}, {NoScript})
    /\ runTags = "all"
    /\ \A h \in Hosts : backups[h] = {}
NextAnyPlay ==
    \E r \in Runs : StartBatch(r) \/ EndPlay(r)
                       \/ \E h \in Hosts : HostStep(r, h) \/ RecoveryStep(r, h)
AnyPlaySpec == InitAnyPlay /\ [][NextAnyPlay]_vars

\* ---------------------------------------------------- deploy.sh --deploy
\* variant: a missing playbook is only warned about
CheckPrerequisitesLax(missing) ==
    IF missing \cap {"ansible", "ansible_dir", "inventory"} # {} THEN 1 ELSE 0

\* check_prerequisites: return 1 at the first of ansible, the ansible directory,
\* the inventory and the playbook that is missing; node and npm are optional
CheckPrerequisites(missing) ==
    IF "ansible" \in missing THEN 1
    ELSE IF "ansible_dir" \in missing THEN 1
    ELSE IF "inventory" \in missing THEN 1
    ELSE IF "playbook" \in missing THEN 1
    ELSE 0

\* if ! check_prerequisites; then ... exit 1
CheckStep ==
    /\ script.pc = "check"
    /\ IF CheckPrerequisites(script.missing) # 0
       THEN script' = [script EXCEPT !.pc = "exited", !.exit = 1,
                                     !.out = @ \cup {"Prerequisites not met"}]
       ELSE script' = [script EXCEPT !.pc = "ping",
                                     !.out = @ \cup {"All prerequisites met"}]
    /\ UNCHANGED <<cfgVars, appVars, playState, curBatch, status, pos, svc, appdir, backups, inLB,
                   attempts, health_check, old_backups, notified, log>>

\* variant: the test fails only when no host at all answers
PingFailsAll(down) == down = Group

\* ansible all -m ping exits non-zero as soon as one host does not answer
PingFails(down) == down # {}

\* if ! ansible all -i inventory.ini -m ping; then ... exit 1
ConnectivityTest ==
    /\ script.pc = "ping"
    /\ \E down \in SUBSET Group :
          IF PingFails(down)
          THEN /\ script' = [script EXCEPT !.pc = "exited", !.exit = 1, !.down = down,
                                           !.out = @ \cup {"Testing connectivity",
                                                           "Cannot connect to servers"}]
               /\ UNCHANGED playState
          ELSE /\ script' = [script EXCEPT !.pc = "playbook", !.down = down,
                                           !.out = @ \cup {"Testing connectivity",
                                                           "Connectivity test passed"}]
               /\ playState' = [r \in Runs |-> "running"]
    /\ UNCHANGED <<cfgVars, appVars, curBatch, status, pos, svc, appdir, backups, inLB,
                   attempts, health_check, old_backups, notified, log>>

\* set -e: a command that fails outside a condition ends the script with the
\* status of the command
ErrExit == TRUE

\* ansible-playbook -i inventory.ini deploy.yml; if [ $? -eq 0 ]; then ... else
\* ... exit 1
PlaybookReturns ==
    /\ script.pc = "playbook"
    /\ playState[1] \in {"done", "aborted"}
    /\ script' =
          IF ExitStatus(1) # 0 /\ ErrExit
          THEN [script EXCEPT !.pc = "exited", !.exit = ExitStatus(1)]
          ELSE IF ExitStatus(1) = 0
          THEN [script EXCEPT !.pc = "exited", !.exit = 0,
                              !.out = @ \cup {"Deployment completed successfully"}]
          ELSE [script EXCEPT !.pc = "exited", !.exit = 1,
                              !.out = @ \cup {"Deployment failed"}]
    /\ UNCHANGED <<cfgVars, appVars, playState, curBatch, status, pos, svc, appdir, backups, inLB,
                   attempts, health_check, old_backups, notified, log>>

\* the tasks of deploy.yml
DeployStep(r, h) ==
    \/ GatherFacts(r, h)
    \/ SkipTask(r, h)
    \/ DebugTask(r, h)
    \/ CreateBackup(r, h)
    \/ StopService(r, h)
    \/ CopyFiles(r, h)
    \/ CopySrc(r, h)
    \/ NpmInstall(r, h)
    \/ StartService(r, h)
    \/ WaitPort(r, h)
    \/ HealthCheck(r, h)
    \/ FlushHandlers(r, h)
    \/ PlainTask(r, h)

\* deploy.sh --deploy on a control machine where anything may be missing
InitScript ==
    InitRuns(1, {"deploy"},
             {[NoScript EXCEPT !.pc = "check", !.missing = m] : m \in MissingChoices})
NextScript ==
    \/ CheckStep
    \/ ConnectivityTest
    \/ PlaybookReturns
    \/ \E r \in Runs : StartBatch(r) \/ EndPlay(r) \/ \E h \in Hosts : DeployStep(r, h)
ScriptSpec == InitScript /\ [][NextScript]_vars

\* One run of disaster-recovery.yml.
InitRecovery == InitRuns(1, {"disaster-recovery"}, {NoScript})
NextRecovery ==
    \E r \in Runs : StartBatch(r) \/ EndPlay(r) \/ \E h \in Hosts : RecoveryStep(r, h)
RecoverySpec == InitRecovery /\ [][NextRecovery]_vars

\* One run of rolling-update.yml or of disaster-recovery.yml in which ansible
\* keeps running the next task as long as there is one: every task returns,
\* the waits after their timeout, the health checks after their last retry.
InitTermination == InitRuns(1, {"rolling-update", "disaster-recovery"}, {NoScript})
NextTermination ==
    \E r \in Runs : StartBatch(r) \/ EndPlay(r)
                       \/ \E h \in Hosts : RollingStep(r, h) \/ RecoveryStep(r, h)
TerminationSpec == InitTermination /\ [][NextTermination]_vars /\ WF_vars(NextTermination)

\* ------------------------------------------------ GET /api/v1/data
\* A header or an environment variable is << >> when absent, << s >> when it
\* has the value s.
KeyStrings == {"", "local-api-key", "LOCAL-API-KEY"}
KeyValues == {<< >>} \cup {<< k >> : k \in KeyStrings}

\* JavaScript !v for a string or undefined
Falsy(v) == v = << >> \/ v = << "" >>

\* variant: a request without the header is let through
validateApiKeyNoRequired(apiKey, expectedApiKey) ==
    IF Falsy(expectedApiKey) THEN "next"
    ELSE IF Falsy(apiKey) THEN "next"
    ELSE IF apiKey # expectedApiKey THEN "Invalid API key"
    ELSE "next"

\* middleware/auth.js validateApiKey: what it does with a request
validateApiKey(apiKey, expectedApiKey) ==
    IF Falsy(expectedApiKey) THEN "next"
    ELSE IF Falsy(apiKey) THEN "API key is required"
    ELSE IF apiKey # expectedApiKey THEN "Invalid API key"
    ELSE "next"

\* a request for /api/v1/data arrives with or without an X-API-Key header
ReceiveData ==
    /\ Len(http) < MaxRequests
    /\ \E k \in KeyValues :
          http' = Append(http, [apiKey |-> k, pc |-> "validateApiKey", status |-> 0,
                                error |-> "", ran |-> FALSE])
    /\ UNCHANGED <<cfgVars, script, ctlVars, status, pos, svc, appdir, backups, inLB, attempts,
                   health_check, old_backups, notified, log, API_KEY, users, regs, monitor>>

\* router.get('/data', validateApiKey, ...): the middleware
DataMiddleware(i) ==
    /\ http[i].pc = "validateApiKey"
    /\ LET verdict == validateApiKey(http[i].apiKey, API_KEY) IN
       http' = [http EXCEPT ![i] =
                  IF verdict = "next" THEN [@ EXCEPT !.pc = "handler"]
                  ELSE [@ EXCEPT !.pc = "done", !.status = 401, !.error = verdict]]
    /\ UNCHANGED <<cfgVars, script, ctlVars, status, pos, svc, appdir, backups, inLB, attempts,
                   health_check, old_backups, notified, log, API_KEY, users, regs, monitor>>

\* router.get('/data', ...): the handler answers with the sample data
DataHandler(i) ==
    /\ http[i].pc = "handler"
    /\ http' = [http EXCEPT ![i] = [@ EXCEPT !.pc = "done", !.status = 200, !.ran = TRUE]]
    /\ UNCHANGED <<cfgVars, script, ctlVars, status, pos, svc, appdir, backups, inLB, attempts,
                   health_check, old_backups, notified, log, API_KEY, users, regs, monitor>>

\* The application with any setting of API_KEY, serving /api/v1/data.
InitApi ==
    /\ PlayIdle
    /\ API_KEY \in KeyValues
    /\ http = << >> /\ users = InitialUsers /\ regs = << >> /\ monitor = NoMonitor
NextApi == ReceiveData \/ \E i \in DOMAIN http : DataMiddleware(i) \/ DataHandler(i)
ApiSpec == InitApi /\ [][NextApi]_vars

\* ------------------------------------------------- monitor-app restart
\* what curl reports for GET /health: an HTTP status, 0 when nothing answers
HealthCodes == Responses \cup {0}

\* the service as the monitor may find it
ServiceStates ==
    {[active |-> a, listening |-> l, code |-> c] :
        a \in BOOLEAN, l \in BOOLEAN, c \in HealthCodes}

\* variant: a listening port is enough
check_app_health_port(m) ==
    IF ~m.active THEN 1 ELSE IF ~m.listening THEN 1 ELSE 0

\* check_app_health: 0 when the service is active, the port is listening and
\* GET /health answers 200, else 1
check_app_health(m) ==
    IF ~m.active THEN 1
    ELSE IF ~m.listening THEN 1
    ELSE IF m.code = 200 THEN 0
    ELSE 1

\* send_alert: post to WEBHOOK_URL when it is set, whatever curl returns, then
\* log the alert
send_alert(m, message, posted) ==
    [m EXCEPT !.alerts = Append(@, [text |-> message,
                                    curl |-> IF ~m.webhook THEN "none"
                                             ELSE IF posted THEN "posted" ELSE "failed"]),
              !.out = Append(@, "ALERT")]

\* auto_restart: if ! check_app_health
AutoRestartCheck ==
    /\ monitor.pc = "check"
    /\ monitor' =
          IF check_app_health(monitor) = 0
          THEN [monitor EXCEPT !.pc = "done", !.checks = Append(@, 0)]
          ELSE [monitor EXCEPT !.pc = "restart", !.checks = Append(@, 1),
                               !.out = Append(@, "attempting restart")]
    /\ UNCHANGED <<cfgVars, script, ctlVars, status, pos, svc, appdir, backups, inLB, attempts,
                   health_check, old_backups, notified, log, API_KEY, http, users, regs>>

\* if systemctl restart "$SERVICE_NAME": on success log, alert and sleep 30, on
\* failure log and alert; the service is in any state afterwards
AutoRestartRestart ==
    /\ monitor.pc = "restart"
    /\ \E ok \in BOOLEAN, posted \in BOOLEAN, after \in ServiceStates :
          /\ ok => after.active
          /\ monitor.webhook \/ posted
          /\ LET m == [monitor EXCEPT !.restarts = Append(@, ok),
                                      !.active = after.active,
                                      !.listening = after.listening,
                                      !.code = after.code]
             IN monitor' =
                  IF ok
                  THEN send_alert([m EXCEPT !.pc = "recheck",
                                            !.out = Append(@, "restarted successfully")],
                                  "automatically restarted", posted)
                  ELSE send_alert([m EXCEPT !.pc = "done",
                                            !.out = Append(@, "Failed to restart")],
                                  "Critical: Failed to restart", posted)
    /\ UNCHANGED <<cfgVars, script, ctlVars, status, pos, svc, appdir, backups, inLB, attempts,
                   health_check, old_backups, notified, log, API_KEY, http, users, regs>>

\* if check_app_health ... else send_alert "... manual intervention required"
AutoRestartRecheck ==
    /\ monitor.pc = "recheck"
    /\ \E posted \in BOOLEAN :
          /\ monitor.webhook \/ posted
          /\ monitor' =
                IF check_app_health(monitor) = 0
                THEN [monitor EXCEPT !.pc = "done", !.checks = Append(@, 0),
                                     !.out = Append(@, "now healthy")]
                ELSE send_alert([monitor EXCEPT !.pc = "done", !.checks = Append(@, 1),
                                                !.out = Append(@, "still unhealthy")],
                                "manual intervention required", posted)
    /\ UNCHANGED <<cfgVars, script, ctlVars, status, pos, svc, appdir, backups, inLB, attempts,
                   health_check, old_backups, notified, log, API_KEY, http, users, regs>>

\* monitor-app restart, with or without WEBHOOK_URL, on a service in any state
InitMonitor ==
    /\ PlayIdle
    /\ API_KEY = << >> /\ http = << >> /\ users = InitialUsers /\ regs = << >>
    /\ \E w \in BOOLEAN, s \in ServiceStates :
          monitor = [NoMonitor EXCEPT !.pc = "check", !.webhook = w, !.active = s.active,
                                      !.listening = s.listening, !.code = s.code]
NextMonitor == AutoRestartCheck \/ AutoRestartRestart \/ AutoRestartRecheck
MonitorSpec == InitMonitor /\ [][NextMonitor]_vars

\* ------------------------------------------------------ POST /register
\* the e-mail of a request body: one of a seeded user, a new one, one that is
\* not an address
Emails == {"admin@example.com", "new@example.com", "not-an-email"}

\* the length of the password of a request body, around the minimum of 6
PasswordLengths == {5, 6}

\* body('email').isEmail()
isEmail(e) == e # "not-an-email"

\* validationResult(req).isEmpty()
BodyValid(req) == isEmail(req.email) /\ req.password >= 6

\* users.find(u => u.email === email)
existingUser(email) == \E k \in DOMAIN users : users[k].email = email

\* a request for /register arrives
ReceiveRegister ==
    /\ Len(regs) < MaxRequests
    /\ \E e \in Emails, p \in PasswordLengths :
          regs' = Append(regs, [email |-> e, password |-> p, pc |-> "handler",
                                status |-> 0, id |-> 0])
    /\ UNCHANGED <<cfgVars, script, ctlVars, status, pos, svc, appdir, backups, inLB, attempts,
                   health_check, old_backups, notified, log, API_KEY, http, users, monitor>>

\* the handler up to await bcrypt.hash(password, 10): 400 for an invalid body
\* or an e-mail that is in the list, else the hash is started
RegisterCheck(i) ==
    /\ regs[i].pc = "handler"
    /\ regs' = [regs EXCEPT ![i] =
                  IF ~BodyValid(regs[i]) \/ existingUser(regs[i].email)
                  THEN [@ EXCEPT !.pc = "done", !.status = 400]
                  ELSE [@ EXCEPT !.pc = "hash"]]
    /\ UNCHANGED <<cfgVars, script, ctlVars, status, pos, svc, appdir, backups, inLB, attempts,
                   health_check, old_backups, notified, log, API_KEY, http, users, monitor>>

\* the handler after the hash: users.push(newUser), 201
RegisterCreate(i) ==
    /\ regs[i].pc = "hash"
    /\ users' = Append(users, [id |-> Len(users) + 1, email |-> regs[i].email])
    /\ regs' = [regs EXCEPT ![i] = [@ EXCEPT !.pc = "done", !.status = 201,
                                              !.id = Len(users) + 1]]
    /\ UNCHANGED <<cfgVars, script, ctlVars, status, pos, svc, appdir, backups, inLB, attempts,
                   health_check, old_backups, notified, log, API_KEY, http, monitor>>

\* The application serving /register; requests are handled as they come, and a
\* handler waiting for its hash lets the others run.
InitRegister ==
    /\ PlayIdle
    /\ API_KEY = << >> /\ http = << >> /\ users = InitialUsers /\ regs = << >>
    /\ monitor = NoMonitor
NextRegister == ReceiveRegister \/ \E i \in DOMAIN regs : RegisterCheck(i) \/ RegisterCreate(i)
RegisterSpec == InitRegister /\ [][NextRegister]_vars

\* The two places that send a notification: one run of disaster-recovery.yml,
\* or one invocation of monitor-app restart.
InitNotify == InitRecovery \/ InitMonitor
NextNotify == NextRecovery \/ NextMonitor
NotifySpec == InitNotify /\ [][NextNotify]_vars

\* ---------------------------------------------------------------- properties
Range(q) == {q[i] : i \in 1..Len(q)}

FullRun == runTags = "all"
Rolling == playbook = "rolling-update"

\* the steps that destroy state: stopping the service, overwriting files, installing
Destructive == {"stop", "copy", "npm"}

BackupPrecedes(h, i) == \E j \in 1..(i - 1) : log[1][h][j] = "backup_ok"

NoDestroyWithoutBackup(h) ==
    \A i \in 1..Len(log[1][h]) : log[1][h][i] \in Destructive => BackupPrecedes(h, i)

NewContent == [files |-> "new", src |-> "new", deps |-> "new"]

\* C1 (as claimed): in every rollout, serial or full-batch, no host is stopped,
\* overwritten or installed on before its backup was created in the same pipeline.
C1_BackupBeforeDestroy_Claim ==
    FullRun => \A h \in Hosts : NoDestroyWithoutBackup(h)

\* C1 (amended): in every complete serial rolling update, no host is stopped,
\* overwritten or installed on before its pre-update backup was created in the
\* same pipeline, and every host that completed holds that backup, with the
\* content the host had before the update.
C1_BackupBeforeDestroy ==
    (Rolling /\ FullRun) =>
        \A h \in Hosts :
            /\ NoDestroyWithoutBackup(h)
            /\ status[1][h] = "ok" =>
                  [name |-> "pre-update", age |-> 0, content |-> OldContent] \in backups[h]

C1_Witness ==
    \E h \in Hosts : Rolling /\ FullRun /\ status[1][h] = "ok" /\ appdir[h] = NewContent

AbortedAtBackup(h) ==
    /\ status[1][h] = "failed"
    /\ log[1][h][Len(log[1][h])] = "backup_failed"
    /\ svc[h] = "running"
    /\ appdir[h] = OldContent

\* C2 (as claimed): whenever the backup of a host fails, the pipeline of that host
\* ends there, its service still running and its application directory unchanged.
C2_BackupFailClosed_Claim ==
    \A h \in Hosts : "backup_failed" \in Range(log[1][h]) => AbortedAtBackup(h)

\* C2 (amended): in the serial rolling update, whenever the backup of a host
\* fails, the pipeline of that host ends there, its service still running and its
\* application directory unchanged.
C2_BackupFailClosed ==
    Rolling => \A h \in Hosts : "backup_failed" \in Range(log[1][h]) => AbortedAtBackup(h)

C2_Witness ==
    \E h \in Hosts : Rolling /\ FullRun /\ "backup_failed" \in Range(log[1][h])

\* the step in which the sweep of host h completes
SweepStep(h) == log'[1][h] = Append(log[1][h], "sweep")

Newest(B) == CHOOSE b \in B : \A c \in B : b.age <= c.age

\* C3 (as claimed): a sweep leaves the newest backup of the host in place whatever
\* its age, removes every other backup of at least the policy age and keeps the rest.
C3_SweepKeepsNewest_Claim ==
    [][\A h \in Hosts :
          SweepStep(h) =>
             backups'[h] = {b \in backups[h] :
                               b = Newest(backups[h]) \/ b.age < RetentionAgeDays}]_vars

\* C3 (amended): a sweep removes every backup of at least the policy age, the
\* newest one included, and keeps exactly the younger ones.
C3_SweepByAgeOnly ==
    [][\A h \in Hosts :
          SweepStep(h) =>
             backups'[h] = {b \in backups[h] : b.age < RetentionAgeDays}]_vars

C3_Witness ==
    \E h \in Hosts :
        /\ "sweep" \in Range(log[1][h])
        /\ old_backups[1][h] # {}
        /\ backups[h] = {}

\* C4 (as claimed): once the play has ended, every host whose health check after
\* the update failed has had its pre-update backup restored.
C4_RollbackAfterFailedCheck_Claim ==
    (Rolling /\ FullRun /\ playState[1] # "running") =>
        \A h \in Hosts : "health_failed" \in Range(log[1][h]) => "restore" \in Range(log[1][h])

\* C5: a host whose health check after the update failed is failed for good; it
\* is neither reported as updated nor re-registered, and nothing of its pipeline
\* runs after the failed check.
C5_FailedCheckNeverCommitted ==
    \A h \in Hosts :
        "health_failed" \in Range(log[1][h]) =>
            /\ status[1][h] = "failed"
            /\ log[1][h][Len(log[1][h])] = "health_failed"
            /\ Range(log[1][h]) \cap {"lb_add", "lb_add_failed", "verify"} = {}

C5_Witness ==
    \E h \in Hosts : Rolling /\ playState[1] = "aborted" /\ "health_failed" \in Range(log[1][h])

\* the per-host state of the rollout, read off the play
HostState(h) ==
    CASE status[1][h] = "pending" -> "Pending"
      [] status[1][h] = "ok" -> "Committed"
      [] status[1][h] \in {"failed", "unreachable"} ->
            IF "rollback_done" \in Range(log[1][h]) THEN "RolledBack" ELSE "Unhealthy"
      [] Cur(1, h) \in {"stop", "copy_files", "copy_src", "copy_static", "npm",
                     "configure", "start", "wait_port"} -> "Updating"
      [] Cur(1, h) \in {"health", "nginx_health"} -> "Verifying"
      [] "health_ok" \in Range(log[1][h]) -> "Healthy"
      [] OTHER -> "Draining"

InFlight == {h \in Hosts : HostState(h) \notin {"Pending", "Committed", "RolledBack"}}

\* C6: in a serial rolling update at most one host is outside Pending, Committed
\* and RolledBack, and a host has left Pending only if every host before it is
\* Committed.
C6_SerialOneInFlight ==
    Rolling =>
        /\ Cardinality(InFlight) <= 1
        /\ \A h \in Hosts : status[1][h] # "pending" =>
              \A g \in 1..(h - 1) : HostState(g) = "Committed"

C6_Witness ==
    Rolling /\ FullRun /\ status[1][1] = "ok" /\ status[1][2] = "active" /\ Cur(1, 2) = "npm"

OutOfRotation == {h \in Hosts : ~inLB[h]}

\* C7 (as claimed): in a serial rolling update at most one host is out of
\* load-balancer rotation.
C7_OneOutOfRotation_Claim ==
    Rolling => Cardinality(OutOfRotation) <= 1

\* C7 (amended): in a serial rolling update at most one host is out of rotation
\* without a failed re-registration call behind it.
C7_OneOutOfRotation ==
    Rolling =>
        Cardinality({h \in OutOfRotation : "lb_add_failed" \notin Range(log[1][h])}) <= 1

C7_Witness ==
    \E h \in Hosts : Rolling /\ playState[1] = "aborted" /\ status[1][h] = "failed" /\ ~inLB[h]

Untouched(h) ==
    /\ status[1][h] = "pending"
    /\ log[1][h] = << >>
    /\ svc[h] = "running"
    /\ appdir[h] = OldContent
    /\ inLB[h]
    /\ \A b \in backups[h] : b.name = "earlier"

\* C8: in a serial rolling update, once a host has failed, the hosts after it are
\* still pending and untouched, the hosts before it are committed, and the play
\* does not end as done.
C8_HaltOnFirstFailure ==
    Rolling =>
        \A f \in Hosts : status[1][f] \in {"failed", "unreachable"} =>
            /\ \A h \in (f + 1)..NumHosts : Untouched(h)
            /\ \A h \in 1..(f - 1) : status[1][h] = "ok"
            /\ playState[1] \in {"running", "aborted"}

C8_Witness ==
    Rolling /\ FullRun /\ playState[1] = "aborted" /\ status[1][1] = "ok" /\ status[1][2] = "failed"

SomeStepFailed ==
    \E h \in Hosts :
        \/ status[1][h] \in {"failed", "unreachable"}
        \/ Range(log[1][h]) \cap {"lb_remove_failed", "lb_add_failed"} # {}

AllCommitted ==
    /\ playState[1] = "done"
    /\ \A h \in Hosts :
          /\ status[1][h] = "ok"
          /\ appdir[h] = NewContent
          /\ svc[h] = "running"
          /\ "health_ok" \in Range(log[1][h])
          /\ inLB[h]

\* C9: a complete serial rolling update in which no step fails eventually ends
\* with every host updated, running, verified healthy and registered.
C9_AllSucceed == <>(SomeStepFailed \/ AllCommitted)

C9_Witness == AllCommitted

HealthyBefore(h, i) ==
    \E j \in 1..(i - 1) :
        /\ log[1][h][j] = "health_ok"
        /\ \A k \in (j + 1)..(i - 1) : log[1][h][k] \notin {"stop", "start", "restart"}

\* C10: every call that adds a host to the load balancer follows a successful
\* health check of that host made since its service was last started.
C10_RegisterOnlyHealthy ==
    \A h \in Hosts : \A i \in 1..Len(log[1][h]) :
        log[1][h][i] \in {"lb_add", "lb_add_failed"} => HealthyBefore(h, i)

C10_Witness ==
    \E h \in Hosts : "lb_add" \in Range(log[1][h]) /\ inLB[h]

\* ------------------------------------------------ disaster recovery properties
Recovery == playbook = "disaster-recovery"

\* nothing of the host was touched by the recovery
RecoveryUntouched(h) ==
    /\ svc[h] = "running"
    /\ appdir[h] \in RecoveryStartContents
    /\ backups[h] = {}
    /\ Range(log[1][h]) \subseteq {"no_backup_specified", "backup_not_found"}

\* C11: a recovery started without a backup path, or with a path that names no
\* file, fails every host at the check of the path, before anything was stopped,
\* archived, removed or written on any host, and the play does not end as done.
C11_NoBackupNoSideEffect ==
    (Recovery /\ recovery_backup_path \in {"", "missing"}) =>
        /\ playState[1] # "done"
        /\ \A h \in Hosts :
              /\ RecoveryUntouched(h)
              /\ status[1][h] # "ok"
              /\ Cur(1, h) \in {"gather_facts", "check_path", "stat_backup", "fail_missing"}

C11_Witness ==
    /\ Recovery
    /\ recovery_backup_path = "missing"
    /\ playState[1] = "aborted"
    /\ \E h \in Hosts : status[1][h] = "failed" /\ log[1][h] = << "backup_not_found" >>

\* C12 (as claimed): a recovery given a file of size zero, or a file that is no
\* archive, touches no host: no service is stopped and no directory removed.
C12_IntegrityChecked_Claim ==
    (Recovery /\ recovery_backup_path \in {"empty", "malformed"}) =>
        \A h \in Hosts : svc[h] = "running" /\ appdir[h] \in RecoveryStartContents

\* C12 (amended): a file of size zero, or one that is no archive, passes the
\* check of the path; it is refused only when it is unpacked, and the host fails
\* there with its application directory empty, never restored.
C12_RefusedAtUnpack ==
    (Recovery /\ recovery_backup_path \in {"empty", "malformed"}) =>
        \A h \in Hosts :
            /\ Range(log[1][h]) \cap {"backup_not_found", "restore"} = {}
            /\ status[1][h] # "ok"
            /\ "restore_failed" \in Range(log[1][h]) =>
                  /\ status[1][h] = "failed"
                  /\ appdir[h] = EmptyDir

C12_Witness ==
    \E h \in Hosts :
        /\ Recovery
        /\ recovery_backup_path = "empty"
        /\ "restore_failed" \in Range(log[1][h])
        /\ svc[h] = "stopped"
        /\ appdir[h] = EmptyDir

\* C13 (as claimed): the application directory of a host is removed only after the
\* pre-recovery snapshot of that host was taken.
C13_SnapshotBeforeWipe_Claim ==
    \A h \in Hosts :
        Range(log[1][h]) \cap {"wipe", "wipe_failed"} # {} => "snapshot_ok" \in Range(log[1][h])

\* C13 (amended): the application directory of a host is removed only after the
\* pre-recovery snapshot was attempted, whether or not the attempt succeeded; a
\* snapshot that succeeded holds the content the host had before the recovery.
C13_SnapshotAttemptedBeforeWipe ==
    \A h \in Hosts :
        /\ \A i \in 1..Len(log[1][h]) :
              log[1][h][i] \in {"wipe", "wipe_failed"} =>
                 \E j \in 1..(i - 1) : log[1][h][j] \in {"snapshot_ok", "snapshot_failed"}
        /\ "snapshot_ok" \in Range(log[1][h]) =>
              \E b \in backups[h] :
                  b.name = "pre-recovery" /\ b.content \in RecoveryStartContents

C13_Witness ==
    \E h \in Hosts :
        /\ "snapshot_failed" \in Range(log[1][h])
        /\ log[1][h][Len(log[1][h])] = "wipe"
        /\ appdir[h] = AbsentDir
        /\ backups[h] = {}

C15_AtomicRestore_Claim ==
    Recovery => \A h \in Hosts : appdir[h] \in RecoveryStartContents \cup {ArchiveContent}

\* C15 (amended): the application directory keeps its content until it is
\* removed; from the removal until the archive is unpacked it is absent or
\* empty; a removal that failed leaves a part of the old content, and an unpack
\* that failed leaves the directory empty or with a part of the archive, the
\* host failed.
C15_RestoreNotAtomic ==
    Recovery =>
        \A h \in Hosts :
            /\ Range(log[1][h]) \cap {"wipe", "wipe_failed"} = {} =>
                  appdir[h] \in RecoveryStartContents
            /\ ("wipe" \in Range(log[1][h])
                  /\ Range(log[1][h]) \cap {"restore", "restore_failed"} = {}) =>
                  appdir[h] \in {AbsentDir, EmptyDir}
            /\ "wipe_failed" \in Range(log[1][h]) =>
                  appdir[h] = PartialDir /\ status[1][h] = "failed"
            /\ "restore_failed" \in Range(log[1][h]) =>
                  appdir[h] \in {EmptyDir, PartialDir} /\ status[1][h] = "failed"

C15_Witness ==
    \E h \in Hosts :
        /\ Recovery
        /\ playState[1] = "aborted"
        /\ "copy_backup_failed" \in Range(log[1][h])
        /\ appdir[h] = EmptyDir

\* ------------------------------------------------ concurrent rollouts
\* the run has executed a step on a host and has not ended
ActiveRollout(r) ==
    /\ playState[r] = "running"
    /\ \E h \in Hosts : log[r][h] # << >>

\* C16 (as claimed): at most one rollout is active on the group at a time; a
\* rollout started while another is active touches no host.
C16_OneRolloutPerGroup_Claim ==
    \A r1 \in Runs : \A r2 \in Runs \ {r1} : ~(ActiveRollout(r1) /\ ActiveRollout(r2))

BackupPrecedesIn(r, h, i) == \E j \in 1..(i - 1) : log[r][h][j] = "backup_ok"

\* C16 (amended): rollouts started together on a group all run; each rolling
\* update still takes its own backup of a host before its own destructive steps
\* on it, but nothing keeps the steps of the other rollout out of the way.
C16_EachRunOwnOrder ==
    Rolling =>
        \A r \in Runs : \A h \in Hosts : \A i \in 1..Len(log[r][h]) :
            log[r][h][i] \in Destructive => BackupPrecedesIn(r, h, i)

C16_Witness ==
    \E h \in Hosts :
        /\ Rolling
        /\ status[1][h] = "active" /\ "copy" \in Range(log[1][h])
        /\ status[2][h] = "active" /\ "copy" \in Range(log[2][h])
        /\ \E b \in backups[h] : b.name = "pre-update" /\ b.content # OldContent

\* ------------------------------------------------ full-batch deployment
Deploy == playbook = "deploy"

\* C17: in a deployment a step that fails a host changes the state of no other
\* host; when the play has ended every host of the group has either run all its
\* tasks or failed on its own, the play is aborted only if every host failed, and
\* the exit status is 0 only if every host ran all its tasks.
C17_HostsIndependent ==
    [][Deploy =>
          /\ \A h \in Group :
                (status[1][h] = "active" /\ status'[1][h] \in {"failed", "unreachable"}) =>
                    \A g \in Group \ {h} :
                        /\ status'[1][g] = status[1][g]
                        /\ pos'[1][g] = pos[1][g]
                        /\ svc'[g] = svc[g]
                        /\ appdir'[g] = appdir[g]
          /\ playState'[1] # "running" =>
                /\ \A h \in Group : status'[1][h] \in {"ok", "failed", "unreachable"}
                /\ playState'[1] = "aborted" <=>
                      \A h \in Group : status'[1][h] \in {"failed", "unreachable"}
                /\ ExitStatus(1)' = 0 <=> \A h \in Group : status'[1][h] = "ok"]_vars

C17_Witness ==
    /\ Deploy
    /\ playState[1] = "done"
    /\ status[1][1] = "failed"
    /\ status[1][2] = "ok"
    /\ appdir[2] = NewContent
    /\ ExitStatus(1) # 0

Stopped == {h \in Group : svc[h] = "stopped"}

\* C18 (as claimed): a configured limit bounds the hosts of a deployment that are
\* down at the same time: the hosts of the group are never all stopped at once.
C18_BoundedFanOut_Claim ==
    Deploy => Cardinality(Stopped) < GroupSize

\* C18 (amended): a deployment takes the whole group as one batch: no host is
\* started again before every host still in the play has run the stop task, so
\* the hosts down at the same time are bounded by the size of the group only.
C18_WholeGroupAtOnce ==
    Deploy =>
        \A g \in Group :
            Range(log[1][g]) \cap {"start", "start_failed"} # {} =>
                \A h \in Group :
                    status[1][h] \in {"failed", "unreachable"} \/ "stop" \in Range(log[1][h])

C18_Witness ==
    /\ Deploy
    /\ Stopped = Group
    /\ \A h \in Group : status[1][h] = "active" /\ Cur(1, h) = "npm"

\* ------------------------------------------------ health gate
\* a probe of the health check of host h
ProbeStep(h) ==
    /\ status[1][h] = "active"
    /\ Cur(1, h) = "health"
    /\ attempts'[1][h] # attempts[1][h] \/ log'[1][h] # log[1][h]

ProbeAnswer(h) == health_check'[1][h]

Passed(h) == log'[1][h] = Append(log[1][h], "health_ok")
Exhausted(h) == log'[1][h] = Append(log[1][h], "health_failed")

\* C19 (as claimed): every health check makes at most the configured number of
\* probes, passes at the first probe answered with a 2xx status, and fails exactly
\* when the configured number of probes were made and none was answered 2xx.
C19_BoundedRetry_Claim ==
    [][\A h \in Hosts :
          ProbeStep(h) =>
             /\ attempts[1][h] + 1 <= HealthRetries
             /\ Passed(h) <=> ProbeAnswer(h) \in 200..299
             /\ Exhausted(h) <=>
                   (ProbeAnswer(h) \notin 200..299 /\ attempts[1][h] + 1 = HealthRetries)]_vars

\* the probes a check may make: one more than its retries:, or a single one for
\* the check of the recovery where retries: without until: is not honoured
ProbeBudget ==
    IF Recovery /\ ~retriesImplyUntil THEN 1 ELSE HealthRetries + 1

\* C19 (amended): every health check makes at most one probe more than its
\* configured retries (a single probe for the check of the recovery where
\* retries without until are not honoured), passes at the first probe answered
\* with status 200 and with no other, and fails exactly when its last allowed
\* probe was not answered 200.
C19_BoundedRetry ==
    [][\A h \in Hosts :
          ProbeStep(h) =>
             /\ attempts[1][h] + 1 <= ProbeBudget
             /\ Passed(h) <=> ProbeAnswer(h) = 200
             /\ Exhausted(h) <=>
                   (ProbeAnswer(h) # 200 /\ attempts[1][h] + 1 = ProbeBudget)
             /\ ~Passed(h) /\ ~Exhausted(h) =>
                   /\ attempts'[1][h] = attempts[1][h] + 1
                   /\ pos'[1][h] = pos[1][h]
                   /\ status'[1][h] = "active"]_vars

C19_Witness ==
    \E h \in Hosts :
        /\ status[1][h] = "active"
        /\ Cur(1, h) = "health"
        /\ attempts[1][h] = HealthRetries
        /\ health_check[1][h] = 204

RecoveryOrder ==
    << {"no_backup_specified", "backup_not_found"},
       {"stop"},
       {"snapshot_ok", "snapshot_failed"},
       {"wipe", "wipe_failed"},
       {"recreate", "recreate_failed"},
       {"copy_backup", "copy_backup_failed"},
       {"restore", "restore_failed"},
       {"npm", "npm_failed"},
       {"start", "start_failed"},
       {"start_nginx"},
       {"port_open", "port_timeout"},
       {"health_ok", "health_failed"},
       {"cleanup_tmp"},
       {"display"},
       {"notify_mail"} >>

\* place of a logged step in that order; the failure of a task that leaves no
\* other trace takes the place of the step it follows
RecoveryRank(q, i) ==
    IF q[i] = "task_failed"
    THEN IF i = 1 THEN 0
         ELSE (CHOOSE n \in 1..Len(RecoveryOrder) : q[i - 1] \in RecoveryOrder[n])
    ELSE CHOOSE n \in 1..Len(RecoveryOrder) : q[i] \in RecoveryOrder[n]

FailureEvents ==
    {"no_backup_specified", "backup_not_found", "wipe_failed", "recreate_failed",
     "copy_backup_failed", "restore_failed", "npm_failed", "start_failed",
     "port_timeout", "health_failed", "task_failed"}

\* C21: on every host a recovery runs its steps in the order validate, stop,
\* snapshot, wipe, restore, dependencies, restart, health check, report: each
\* logged step follows one of an earlier place and a successful one of the place
\* just before (nothing is left out), nothing is stopped unless the backup file
\* exists, and the health check is concluded at most once, after the restart.
C21_RecoveryOrder ==
    Recovery =>
        \A h \in Hosts :
            /\ \A i \in 2..Len(log[1][h]) :
                  /\ log[1][h][i] # "task_failed" =>
                        RecoveryRank(log[1][h], i) = RecoveryRank(log[1][h], i - 1) + 1
                  /\ log[1][h][i - 1] \notin FailureEvents \ {"snapshot_failed"}
            /\ (log[1][h] # << >> /\ log[1][h][1] \notin RecoveryOrder[1]) =>
                  log[1][h][1] = "stop" /\ BackupFileExists
            /\ Cardinality({i \in 1..Len(log[1][h]) :
                                log[1][h][i] \in {"health_ok", "health_failed"}}) <= 1

C21_Witness ==
    \E h \in Hosts :
        /\ Recovery
        /\ status[1][h] = "ok"
        /\ "health_ok" \in Range(log[1][h])
        /\ "display" \in Range(log[1][h])

\* C22 (as claimed): once a recovery has ended, every host whose final health
\* check was concluded, passed or failed, has had its result displayed.
C22_OutcomeReported_Claim ==
    (Recovery /\ playState[1] # "running") =>
        \A h \in Hosts :
            Range(log[1][h]) \cap {"health_ok", "health_failed"} # {} =>
                "display" \in Range(log[1][h])

\* the stage step of the host failed: its last step is a copy or an install
\* and the host is failed
StageFailed(h) ==
    /\ status[1][h] = "failed"
    /\ log[1][h] # << >>
    /\ log[1][h][Len(log[1][h])] \in {"copy", "npm"}

\* C23 (as claimed): once a rolling update has ended, every host whose stage
\* step failed has had its pre-update backup restored and its service is running.
C23_StageFailureRollsBack_Claim ==
    (Rolling /\ FullRun /\ playState[1] # "running") =>
        \A h \in Hosts :
            StageFailed(h) => "restore" \in Range(log[1][h]) /\ svc[h] = "running"

\* ------------------------------------------------------------ deploy.sh
Scripted == script.pc # "none"
Unreached == script.down \cup {h \in Group : status[1][h] = "unreachable"}

\* C24 as stated: when deploy.sh has ended and some host could not be reached,
\* the deployment has run on every host that could be reached.
C24_UnreachableSkipped_Claim ==
    (Scripted /\ script.pc = "exited" /\ Unreached # {})
        => \A h \in Group \ Unreached : pos[1][h] > 1

\* C24 amended: a host that does not answer the connectivity test stops
\* deploy.sh with status 1 before the playbook, so that no host is deployed; a
\* host that answers the test and is unreachable when the play gathers facts
\* is left out of the play, which runs to its end on every other host, and
\* deploy.sh then ends with a non-zero status.
C24_UnreachableSkipped ==
    Scripted =>
        /\ script.down # {} =>
              /\ script.pc = "exited" /\ script.exit = 1
              /\ playState[1] = "waiting"
              /\ \A h \in Hosts : Untouched(h)
        /\ (script.pc = "exited" /\ script.down = {} /\ Unreached # {}) =>
              /\ script.exit # 0
              /\ \A h \in Group \ Unreached : status[1][h] \in {"ok", "failed"}
              /\ \A h \in Unreached : log[1][h] = << >> /\ appdir[h] = OldContent
C24_Witness ==
    /\ Scripted /\ script.pc = "exited" /\ script.down = {1}
    /\ \A h \in Group : Untouched(h)

\* C25: when Ansible, the ansible directory, the inventory or the deploy
\* playbook is missing, deploy.sh never gets past the prerequisite check: it
\* ends with a non-zero status, the connectivity test is not run, the playbook
\* is not started and no host is touched.
C25_ConfigErrorFailsFast ==
    (Scripted /\ script.missing \cap {"ansible", "ansible_dir", "inventory", "playbook"} # {})
        => /\ script.pc \in {"check", "exited"}
           /\ script.pc = "exited" => script.exit # 0
           /\ "Testing connectivity" \notin script.out
           /\ playState[1] = "waiting"
           /\ \A h \in Hosts : Untouched(h)
C25_Witness ==
    /\ Scripted /\ script.pc = "exited" /\ script.missing = {"playbook"}
    /\ script.exit = 1 /\ "Prerequisites not met" \in script.out

\* C26: deploy.sh prints 'Deployment completed successfully' and ends with
\* status 0 exactly when the playbook ran to its end with every host of the
\* group succeeding; in every other case it ends with a non-zero status and
\* without that message.
C26_SucceededOnlyIfAllCommitted ==
    (Scripted /\ script.pc = "exited")
        => /\ script.exit = 0 <=> "Deployment completed successfully" \in script.out
           /\ script.exit = 0 <=>
                  /\ playState[1] = "done"
                  /\ \A h \in Group : status[1][h] = "ok" /\ "verify" \in Range(log[1][h])
C26_Witness ==
    /\ Scripted /\ script.pc = "exited" /\ script.exit = 0
    /\ "Deployment completed successfully" \in script.out
    /\ \A h \in Group : status[1][h] = "ok"

\* -------------------------------------------------------- retention sweep
Swept(h) == backups'[h] # backups[h] /\ backups'[h] \subseteq backups[h]

\* C27 as stated: no backup is deleted while a host of the group is still
\* pending.
C27_SweepAfterTerminal_Claim ==
    [][(Rolling /\ \E h \in Hosts : Swept(h))
          => \A g \in Group : status[1][g] # "pending"]_vars

\* C27 amended: the sweep is the last part of each host's own pipeline: a
\* backup of a host is deleted only by that host's 'Remove old backups' task,
\* in a full run after that host's update was verified, and only on that host;
\* the hosts that come later in the serial order are still pending then.
C27_SweepEndsHostPipeline ==
    [][Rolling => \A h \in Hosts : Swept(h) =>
          /\ status[1][h] = "active" /\ Cur(1, h) = "remove_old"
          /\ FullRun => "verify" \in Range(log[1][h])
          /\ \A g \in Hosts \ {h} : backups'[g] = backups[g]
          /\ \A g \in Group : g > h => Untouched(g)]_vars
C27_Witness ==
    /\ Rolling /\ FullRun /\ playState[1] = "running"
    /\ "sweep" \in Range(log[1][1])
    /\ old_backups[1][1] # {} /\ old_backups[1][1] \cap backups[1] = {}
    /\ \A g \in Group \ {1} : status[1][g] = "pending"

SweepError(h) == Range(log[1][h]) \cap {"find_old_failed", "sweep_failed"} # {}

\* C28 as stated: a host whose sweep met an error is not failed, and the
\* rollout is not aborted.
C28_SweepErrorNonFatal_Claim ==
    Rolling => \A h \in Group : SweepError(h) =>
                  status[1][h] # "failed" /\ playState[1] # "aborted"

\* C28 amended: an error of 'Clean up old backups' or 'Remove old backups'
\* fails the host although its update is live (in a full run verified and
\* serving), and, the batch being that single host, ends the rollout: the later
\* hosts stay untouched, the play does not complete and its exit status is
\* non-zero.
C28_SweepErrorFatal ==
    Rolling => \A h \in Group : SweepError(h) =>
        /\ status[1][h] = "failed"
        /\ FullRun => "verify" \in Range(log[1][h]) /\ svc[h] = "running"
        /\ \A g \in Group : g > h => Untouched(g)
        /\ playState[1] # "done"
        /\ ExitStatus(1) # 0
C28_Witness ==
    /\ Rolling /\ FullRun /\ playState[1] = "aborted"
    /\ "sweep_failed" \in Range(log[1][1]) /\ "verify" \in Range(log[1][1])
    /\ \A g \in Group \ {1} : Untouched(g)

\* ------------------------------------------------------- committed hosts
\* the host's update was verified in this rollout
Committed(h) == Rolling /\ FullRun /\ "verify" \in Range(log[1][h])

\* C29: once a host of a rollout is committed, no later step of the rollout
\* (its own remaining tasks, a later host's pipeline or failure, the end or
\* the abort of the play) changes its application directory, its service state
\* or its load-balancer registration.
C29_CommittedUntouched ==
    [][\A h \in Hosts : Committed(h) =>
          /\ appdir'[h] = appdir[h]
          /\ svc'[h] = svc[h]
          /\ inLB'[h] = inLB[h]]_vars
C29_Witness ==
    /\ Committed(1) /\ status[1][1] = "ok"
    /\ status[1][2] = "failed" /\ playState[1] = "aborted"
    /\ svc[1] = "running" /\ appdir[1] # OldContent

\* ----------------------------------------------------------- termination
\* the play is over and no host is in the middle of its tasks
Terminated ==
    /\ playState[1] \in {"done", "aborted"}
    /\ \A h \in Group : status[1][h] \in {"ok", "failed", "unreachable", "pending"}
    /\ playState[1] = "done" => \A h \in Group : status[1][h] # "pending"

\* C30: every run of the rolling update and of the disaster recovery ends,
\* whatever the hosts answer: the play reaches done or aborted with no host
\* left in the middle of its tasks.
C30_Terminates == <>Terminated
C30_Witness ==
    /\ Terminated
    /\ \E h \in Group : Range(log[1][h]) \cap {"health_failed", "port_timeout"} # {}

\* --------------------------------------------------------- /api/v1/data
KeyConfigured == ~Falsy(API_KEY)

\* C32: with an API key configured the handler of /api/v1/data runs only for a
\* request whose X-API-Key header equals the key, and a request answered with
\* another key or with none got 401 without the handler; with no key
\* configured no request is refused.
C32_ApiKeyProtectsData ==
    \A i \in DOMAIN http :
        /\ (KeyConfigured /\ http[i].ran) => http[i].apiKey = API_KEY
        /\ (KeyConfigured /\ http[i].pc = "done" /\ http[i].apiKey # API_KEY)
              => http[i].status = 401 /\ ~http[i].ran
        /\ (KeyConfigured /\ http[i].pc = "done" /\ http[i].apiKey = API_KEY)
              => http[i].status = 200 /\ http[i].ran
        /\ (~KeyConfigured /\ http[i].pc = "done") => http[i].status = 200 /\ http[i].ran
C32_Witness ==
    /\ API_KEY = << "local-api-key" >> /\ Len(http) = 2
    /\ http[1].apiKey = << >> /\ http[1].status = 401 /\ ~http[1].ran
    /\ http[2].apiKey = API_KEY /\ http[2].status = 200 /\ http[2].ran

\* -------------------------------------------------- monitor-app restart
AlertTexts == {monitor.alerts[i].text : i \in DOMAIN monitor.alerts}

\* the service is active, listens on the port and answers 200 on /health
AppHealthy == monitor.active /\ monitor.listening /\ monitor.code = 200

\* C38: one invocation of monitor-app restart restarts the service at most
\* once. When the first check passes nothing is restarted and no alert is
\* sent. When it fails the restart command is run exactly once: if it fails, a
\* critical alert is sent and no second check is made; if it succeeds the
\* application is checked once more, and when it is still unhealthy the 'manual
\* intervention required' alert is sent, with no second restart.
C38_AtMostOneRestart ==
    /\ Len(monitor.restarts) <= 1
    /\ monitor.pc = "restart" => ~AppHealthy
    /\ monitor.pc = "done" =>
          /\ monitor.checks # << >>
          /\ monitor.restarts # << FALSE >> =>
                (monitor.checks[Len(monitor.checks)] = 0 <=> AppHealthy)
          /\ monitor.checks[1] = 0 =>
                monitor.restarts = << >> /\ monitor.alerts = << >> /\ Len(monitor.checks) = 1
          /\ monitor.checks[1] = 1 => Len(monitor.restarts) = 1
          /\ monitor.restarts = << FALSE >> =>
                /\ Len(monitor.checks) = 1
                /\ AlertTexts = {"Critical: Failed to restart"}
          /\ monitor.restarts = << TRUE >> =>
                /\ Len(monitor.checks) = 2
                /\ "manual intervention required" \in AlertTexts <=> monitor.checks[2] = 1
C38_Witness ==
    /\ monitor.pc = "done" /\ monitor.restarts = << TRUE >>
    /\ monitor.checks = << 1, 1 >>
    /\ "manual intervention required" \in AlertTexts

\* ---------------------------------------------------------- notification
\* the host came to 'Send recovery notification' and the mail was not sent
MailFailed(h) ==
    /\ log[1][h] # << >> /\ log[1][h][Len(log[1][h])] = "task_failed"
    /\ "display" \in Range(log[1][h])
Alerted == {i \in DOMAIN monitor.out : monitor.out[i] = "ALERT"}

\* C31: a notification that cannot be sent, or has no address to go to, changes
\* nothing else. In disaster-recovery.yml a host that came as far as the report
\* is never failed, and ends succeeded in a completed play, whether the mail
\* was sent, failed or was skipped. In monitor-app restart every alert is logged
\* whether or not it could be posted, and the steps after an alert (the second
\* check) are made all the same.
C31_NotificationFireAndForget ==
    /\ Recovery => \A h \in Group : "display" \in Range(log[1][h]) =>
          /\ status[1][h] \in {"active", "ok"}
          /\ playState[1] # "aborted"
          /\ playState[1] = "done" => status[1][h] = "ok"
    /\ monitor.pc # "none" =>
          /\ Cardinality(Alerted) = Len(monitor.alerts)
          /\ monitor.restarts = << TRUE >> => monitor.pc \in {"recheck", "done"}
          /\ (monitor.restarts = << TRUE >> /\ monitor.pc = "done") => Len(monitor.checks) = 2
C31_Witness ==
    /\ Recovery /\ notification_email /\ playState[1] = "done"
    /\ \E h \in Group : MailFailed(h) /\ status[1][h] = "ok"

\* ------------------------------------------------------ the host pipeline
Last(q) == q[Len(q)]

\* the deregistration of the host was not made: the call failed, or there is no
\* load balancer to call
NotDeregistered(h) ==
    \/ "lb_remove_failed" \in Range(log[1][h])
    \/ ~lbDefined /\ "backup_ok" \in Range(log[1][h])

\* C33: in a complete rolling update a deregistration that fails or is skipped
\* does not fail the host: the next thing the host does is the drain wait, and
\* the stop, stage and start steps come only after that wait.
C33_DrainBestEffort ==
    (Rolling /\ FullRun) => \A h \in Group :
        /\ (log[1][h] # << >> /\ Last(log[1][h]) = "lb_remove_failed")
              => status[1][h] = "active" /\ Cur(1, h) = "drain"
        /\ (~lbDefined /\ log[1][h] # << >> /\ Last(log[1][h]) = "backup_ok")
              => status[1][h] = "active" /\ Cur(1, h) \in {"lb_remove", "drain"}
        /\ "stop" \in Range(log[1][h]) => "drain" \in Range(log[1][h])
        /\ (NotDeregistered(h) /\ status[1][h] = "failed")
              => Last(log[1][h]) \notin {"lb_remove_failed", "backup_ok", "drain"}
C33_Witness ==
    /\ Rolling /\ FullRun /\ lbDefined
    /\ "lb_remove_failed" \in Range(log[1][1]) /\ "verify" \in Range(log[1][1])
    /\ status[1][1] = "ok" /\ appdir[1] = NewContent /\ svc[1] = "running"

\* what a complete pipeline logs, step by step
RollingOrder ==
    << {"pre_debug"}, {"backup_ok", "backup_failed"}, {"lb_remove", "lb_remove_failed"},
       {"drain"}, {"stop"}, {"copy"}, {"copy"}, {"npm"}, {"start", "start_failed"},
       {"port_open", "port_timeout"}, {"health_ok", "health_failed"},
       {"lb_add", "lb_add_failed"}, {"verify"}, {"find_old", "find_old_failed"},
       {"sweep", "sweep_failed"} >>
IsLBStep(x) == x \cap {"lb_remove", "lb_add"} # {}
ExpectedOrder == IF lbDefined THEN RollingOrder ELSE SelectSeq(RollingOrder, LAMBDA x : ~IsLBStep(x))
FatalEvents ==
    {"backup_failed", "start_failed", "port_timeout", "health_failed", "find_old_failed",
     "sweep_failed"}

\* the step logged last on the host succeeded
LastSucceeded(h) ==
    /\ Last(log[1][h]) \notin FatalEvents
    /\ Last(log[1][h]) = "stop" => svc[h] = "stopped"
    /\ Last(log[1][h]) \in {"copy", "npm"} =>
          \A f \in DOMAIN appdir[h] : appdir[h][f] # "part"

\* C34: in a complete rolling update the steps of a host are logged in the one
\* order of the play (stop, the copies, the install, start, port wait, health
\* check, registration, report, sweep), a step runs only on a host that has not
\* failed and whose previous step succeeded, and so nothing runs on a host
\* after its first fatal failure.
C34_StrictSequenceHalts ==
    [][(Rolling /\ FullRun) => \A h \in Group :
          /\ \A i \in 1..Len(log'[1][h]) : i <= Len(ExpectedOrder) /\ log'[1][h][i] \in ExpectedOrder[i]
          /\ log'[1][h] # log[1][h] =>
                /\ Len(log'[1][h]) = Len(log[1][h]) + 1
                /\ status[1][h] = "active"
                /\ log[1][h] # << >> => LastSucceeded(h)
          /\ status[1][h] = "failed" =>
                /\ svc'[h] = svc[h] /\ appdir'[h] = appdir[h]
                /\ inLB'[h] = inLB[h] /\ backups'[h] = backups[h]]_vars
C34_Witness ==
    /\ Rolling /\ FullRun /\ playState[1] = "aborted"
    /\ status[1][1] = "failed" /\ Last(log[1][1]) = "port_timeout"
    /\ Range(log[1][1]) \cap {"health_ok", "health_failed", "lb_add", "verify", "sweep"} = {}

OwnBackups(h) == {b \in backups[h] : b.name = BackupName /\ b.age = 0}

\* C36 as stated: whenever the sweep has run on a host, a backup of that host
\* exists.
C36_OwnBackupNeverSwept_Claim ==
    Rolling => \A h \in Group :
        Range(log[1][h]) \cap {"sweep", "sweep_failed"} # {} => backups[h] # {}

\* C36 amended: the archive a host's backup step wrote in this run is never
\* selected nor deleted by the sweep of the run, so in a complete rolling
\* update it is still there after the host's sweep; a run that only sweeps
\* (--tags cleanup) writes no archive and may leave the host without any.
C36_OwnBackupNeverSwept ==
    Rolling => \A h \in Group :
        /\ "backup_ok" \in Range(log[1][h]) => OwnBackups(h) # {}
        /\ old_backups[1][h] \cap OwnBackups(h) = {}
        /\ (FullRun /\ Range(log[1][h]) \cap {"find_old", "sweep", "sweep_failed"} # {})
              => OwnBackups(h) # {}
C36_Witness ==
    /\ Rolling /\ FullRun /\ "sweep" \in Range(log[1][1])
    /\ old_backups[1][1] # {} /\ old_backups[1][1] \cap backups[1] = {}
    /\ backups[1] = OwnBackups(1) /\ OwnBackups(1) # {}

\* ------------------------------------------------------------ /register
\* C37 as stated: the user list never holds two users with the same e-mail
\* address.
C37_UniqueEmails_Claim ==
    \A i, j \in DOMAIN users : users[i].email = users[j].email => i = j
====
